---------------------------- MODULE Spec2Model ----------------------------
(***************************************************************************)
(* Chain specification and genesis construction of the zCloak collator     *)
(* (node/src/chain_spec.rs).                                               *)
(*                                                                         *)
(* Three specifications share the variables:                               *)
(*   Spec         the profile factories, the hosting framework invoking    *)
(*                the registered genesis closures, and Extensions::try_get *)
(*   SpecGenesis  testnet_genesis applied to arbitrary arguments           *)
(*   SpecSerde    the derived Deserialize of Extensions, one map entry     *)
(*                at a time                                                *)
(***************************************************************************)
EXTENDS Integers, Sequences, FiniteSets, TLC

VARIABLES
    WASM_BINARY,    \* parachain_runtime::WASM_BINARY : Option<&'static [u8]>
    telemetry_env,  \* whether TelemetryEndpoints::new accepts the endpoint list
    specs,          \* the factory calls made, each with the ChainSpec it returned
    genesis,        \* the closure invocations that returned, each with its GenesisConfig
    nruns,          \* how many times testnet_genesis has been entered
    panic,          \* Option<message>: the process has been aborted by a panic
    got,            \* the last Extensions::try_get call: its argument and result
    args,           \* SpecGenesis: the arguments handed to testnet_genesis
    de              \* SpecSerde: the state of one Extensions deserialization

vars == <<WASM_BINARY, telemetry_env, specs, genesis, nruns, panic, got, args, de>>

(***************************************************************************)
(* Bounds of the model.                                                    *)
(***************************************************************************)
MaxSpecs == 2       \* factory calls per behaviour
MaxCalls == 3       \* closure invocations per behaviour
MaxEndowed == 3     \* SpecGenesis: length of the endowed list
MaxFields == 3      \* SpecSerde: entries of the input object

(***************************************************************************)
(* Option and Result.                                                      *)
(***************************************************************************)
None == [some |-> FALSE]
Some(x) == [some |-> TRUE, v |-> x]
Ok(x) == [tag |-> "Ok", v |-> x]
Err(e) == [tag |-> "Err", v |-> e]
Panic(m) == [tag |-> "Panic", v |-> m]

\* A conversion that keeps the payload of an error as if it were a value.
ok_drops_nothing(r) == Some(r.v)

\* Result::ok (line 145): Ok(x) becomes Some(x), an error becomes None.
ok(r) == IF r.tag = "Ok" THEN Some(r.v) ELSE None

(***************************************************************************)
(* u128 arithmetic on little-endian 16-bit limbs: 10_u128.pow(28).         *)
(***************************************************************************)
LimbBase == 2^16
U128Limbs == 128 \div 16
U64Limbs == 64 \div 16

Zero(n) == [i \in 1..n |-> 0]
One(n) == [i \in 1..n |-> IF i = 1 THEN 1 ELSE 0]

\* a * m for a small m, wrapping at the width of a; overflow tells whether
\* a carry left the top limb.
RECURSIVE MulFrom(_, _, _, _, _)
MulFrom(a, m, i, carry, out) ==
    IF i > Len(a) THEN [val |-> out, overflow |-> carry # 0]
    ELSE LET p == a[i] * m + carry
         IN  MulFrom(a, m, i + 1, p \div LimbBase, Append(out, p % LimbBase))

MulSmall(a, m) == MulFrom(a, m, 1, 0, <<>>)

\* base.pow(exp) at a width of n limbs: the wrapped value and whether any
\* multiplication overflowed.
RECURSIVE PowFrom(_, _, _, _)
PowFrom(base, exp, acc, overflow) ==
    IF exp = 0 THEN [val |-> acc, overflow |-> overflow]
    ELSE LET m == MulSmall(acc, base)
         IN  PowFrom(base, exp - 1, m.val, overflow \/ m.overflow)

PowSmall(base, exp, n) == PowFrom(base, exp, One(n), FALSE)

\* a divided by a small d, from the top limb down: quotient limbs and remainder.
RECURSIVE DivFrom(_, _, _, _, _)
DivFrom(a, d, i, r, q) ==
    IF i = 0 THEN [q |-> q, r |-> r]
    ELSE LET cur == r * LimbBase + a[i]
         IN  DivFrom(a, d, i - 1, cur % d, <<cur \div d>> \o q)

DivSmall(a, d) == DivFrom(a, d, Len(a), 0, <<>>)

\* The decimal digits of a, most significant first (<<>> for zero).
RECURSIVE DecimalFrom(_, _)
DecimalFrom(a, digits) ==
    IF a = Zero(Len(a)) THEN digits
    ELSE LET d == DivSmall(a, 10) IN DecimalFrom(d.q, <<d.r>> \o digits)

Decimal(a) == DecimalFrom(a, <<>>)

BalanceBase == 10
BalanceExp == 28

\* The same power in 64 bits, where it wraps.
EndowmentU64 == PowSmall(BalanceBase, BalanceExp, U64Limbs)

\* 10_u128.pow(28) (line 172)
Endowment == PowSmall(BalanceBase, BalanceExp, U128Limbs)

(***************************************************************************)
(* Accounts.  A seed is the sequence of its tokens, "Alice//stash" being   *)
(* <<"Alice", "//", "stash">>; a public key derived from the development   *)
(* phrase is named by the junctions of its derivation path.                *)
(***************************************************************************)
\* format!("//{}", seed) (line 51)
Suri(seed) == <<"//">> \o seed

\* Pair::from_string: the hard junctions of a secret URI with an empty phrase.
RECURSIVE Junctions(_)
Junctions(suri) ==
    IF Len(suri) < 2 THEN <<>>
    ELSE <<suri[2]>> \o Junctions(SubSeq(suri, 3, Len(suri)))

\* A derivation that drops every junction after the first.
get_from_seed_first_junction(seed) ==
    [scheme |-> "sr25519", path |-> <<Junctions(Suri(seed))[1]>>]

\* get_from_seed (lines 50-54)
get_from_seed(seed) == [scheme |-> "sr25519", path |-> Junctions(Suri(seed))]

\* AccountPublic::from(..).into_account(): the account is the public key.
get_account_id_from_seed(seed) ==
    [kind |-> "derived", key |-> get_from_seed(seed).path]

\* hex![..].into()
HexAccount(h) == [kind |-> "raw", key |-> <<h>>]

Stash(name) == <<name, "//", "stash">>

\* lines 73-87
DevRoot == get_account_id_from_seed(<<"Alice">>)
DevEndowed ==
    << get_account_id_from_seed(<<"Alice">>),
       get_account_id_from_seed(<<"Bob">>),
       get_account_id_from_seed(<<"Charlie">>),
       get_account_id_from_seed(<<"Dave">>),
       get_account_id_from_seed(<<"Eve">>),
       get_account_id_from_seed(<<"Ferdie">>),
       get_account_id_from_seed(Stash("Alice")),
       get_account_id_from_seed(Stash("Bob")),
       get_account_id_from_seed(Stash("Charlie")),
       get_account_id_from_seed(Stash("Dave")),
       get_account_id_from_seed(Stash("Eve")),
       get_account_id_from_seed(Stash("Ferdie")) >>

\* lines 109-112
StagingRoot ==
    HexAccount("9ed7705e3c7da027ba0583a22a3212042f7e715d3c168ba14f1424e2bc111d00")
StagingEndowed ==
    << HexAccount("9ed7705e3c7da027ba0583a22a3212042f7e715d3c168ba14f1424e2bc111d00") >>

\* lines 137-140
Pc1Root ==
    HexAccount("5ae0bef89390c69ddceef596adb034b6b0546f5a0f9d8cb042e9288bd9e45e54")
Pc1Endowed ==
    << HexAccount("1020e6d91d63cce6f6d961b5ec76364fe5601dd132e06a0de4dad3298ad8565a") >>

(***************************************************************************)
(* ParaId is a newtype over u32.                                           *)
(***************************************************************************)
ParaId(n) == [para |-> n]

\* u32::from(ParaId) (id.into(), lines 97, 122, 150)
ParaIdInto(id) == id.para

ParaIds == {ParaId(0), ParaId(2000)}


(***************************************************************************)
(* Extensions and the extension bag of a chain specification.              *)
(***************************************************************************)
\* struct Extensions (lines 31-36)
Extensions(relay_chain, para_id) == [relay_chain |-> relay_chain, para_id |-> para_id]

\* ChainSpec::extensions(): the bag, tagged with the type it holds.
Bag(type, value) == [type |-> type, value |-> value]

\* A lookup that skips the type test of the downcast.
get_extension_unchecked(bag) == Some(bag.value)

\* sc_chain_spec::get_extension::<Extensions> (line 41): a downcast by type.
get_extension(bag) == IF bag.type = "Extensions" THEN Some(bag.value) ELSE None

\* Extensions::try_get (lines 40-42)
try_get(chain_spec) == get_extension(chain_spec.extensions)

(***************************************************************************)
(* The genesis record.                                                     *)
(***************************************************************************)
WasmMissing == "WASM binary was not build, please build it!"

\* endowed_accounts.iter().cloned().map(|k| (k, 10_u128.pow(28))).collect()
Balances(endowed_accounts) ==
    [i \in 1..Len(endowed_accounts) |-> <<endowed_accounts[i], Endowment.val>>]

\* A build that falls back to empty code when the blob is absent.
testnet_genesis_default_code(root_key, endowed_accounts, id) ==
    Ok([ code |-> IF WASM_BINARY.some THEN WASM_BINARY.v ELSE <<>>,
         balances |-> Balances(endowed_accounts),
         key |-> root_key,
         parachain_id |-> id ])

\* A build that makes the first endowed account the sudo key.
testnet_genesis_first_endowed(root_key, endowed_accounts, id) ==
    IF ~WASM_BINARY.some THEN Panic(WasmMissing)
    ELSE Ok([ code |-> WASM_BINARY.v,
              balances |-> Balances(endowed_accounts),
              key |-> IF endowed_accounts = <<>> THEN root_key ELSE endowed_accounts[1],
              parachain_id |-> id ])

\* A build that credits each account once.
RECURSIVE Dedup(_)
Dedup(s) ==
    IF s = <<>> THEN <<>>
    ELSE LET rest == Dedup(SubSeq(s, 1, Len(s) - 1))
             last == s[Len(s)]
         IN  IF \E i \in 1..Len(rest) : rest[i] = last THEN rest ELSE Append(rest, last)

testnet_genesis_dedup(root_key, endowed_accounts, id) ==
    IF ~WASM_BINARY.some THEN Panic(WasmMissing)
    ELSE Ok([ code |-> WASM_BINARY.v,
              balances |-> Balances(Dedup(endowed_accounts)),
              key |-> root_key,
              parachain_id |-> id ])

\* A build that records a fixed parachain id.
testnet_genesis_fixed_id(root_key, endowed_accounts, id) ==
    IF ~WASM_BINARY.some THEN Panic(WasmMissing)
    ELSE Ok([ code |-> WASM_BINARY.v,
              balances |-> Balances(endowed_accounts),
              key |-> root_key,
              parachain_id |-> ParaId(2000) ])

\* testnet_genesis (lines 156-178): Panic when WASM_BINARY is None,
\* otherwise the GenesisConfig.
testnet_genesis(root_key, endowed_accounts, id) ==
    IF ~WASM_BINARY.some THEN Panic(WasmMissing)
    ELSE Ok([ code |-> WASM_BINARY.v,
              balances |-> Balances(endowed_accounts),
              key |-> root_key,
              parachain_id |-> id ])

(***************************************************************************)
(* The chain specification and the closures the factories register.        *)
(***************************************************************************)
\* move || testnet_genesis(..) : the closure captures id and is not run.
Closure(fn, id) == [fn |-> fn, id |-> id]

\* The body of each closure (lines 71-90, 107-115, 135-143).
CallClosure(c) ==
    CASE c.fn = "get_chain_spec" -> testnet_genesis(DevRoot, DevEndowed, c.id)
      [] c.fn = "staging_test_net" -> testnet_genesis(StagingRoot, StagingEndowed, c.id)
      [] c.fn = "starks_pc1_testnet" -> testnet_genesis(Pc1Root, Pc1Endowed, c.id)

\* ChainSpec::from_genesis: the arguments are stored; the constructor is kept
\* as GenesisSource::Factory.
from_genesis(name, id, chain_type, constructor, boot_nodes, telemetry_endpoints, protocol_id, properties, extensions) ==
    [ name |-> name,
      id |-> id,
      chain_type |-> chain_type,
      genesis |-> constructor,
      boot_nodes |-> boot_nodes,
      telemetry_endpoints |-> telemetry_endpoints,
      protocol_id |-> protocol_id,
      properties |-> properties,
      extensions |-> Bag("Extensions", extensions) ]

\* vec![("wss://telemetry.polkadot.io/submit/".into(), 0)] (line 145)
Pc1Endpoints == << <<"wss://telemetry.polkadot.io/submit/", 0>> >>

\* TelemetryEndpoints::new: the list, or an error when an address does not parse.
TelemetryEndpointsNew(endpoints) ==
    IF telemetry_env THEN Ok(endpoints) ELSE Err("InvalidMultiaddress")

\* lines 128-130
Pc1Properties == [tokenSymbol |-> "STN", tokenDecimals |-> 18]

DevSpec(id) ==
    from_genesis("Local Testnet", "local_testnet", "Local",
                 Closure("get_chain_spec", id), <<>>, None, None, None,
                 Extensions("westend-dev", ParaIdInto(id)))

StagingSpec(id) ==
    from_genesis("Staging Testnet", "staging_testnet", "Live",
                 Closure("staging_test_net", id), <<>>, None, None, None,
                 Extensions("westend-dev", ParaIdInto(id)))

Pc1Spec(id) ==
    from_genesis("zCloak Network PC1", "zcloak_network", "Live",
                 Closure("starks_pc1_testnet", id), <<>>,
                 ok(TelemetryEndpointsNew(Pc1Endpoints)),
                 Some("zcloak-pc1"), Some(Pc1Properties),
                 Extensions("rococo", ParaIdInto(id)))

\* The specification of another chain, such as the relay chain's: any
\* &dyn sc_service::ChainSpec may be handed to try_get (line 40), and the bag
\* of this one holds no Extensions record.
ForeignSpec(name) ==
    [ name |-> name, id |-> "westend", chain_type |-> "Live",
      genesis |-> Closure("foreign", ParaId(0)), boot_nodes |-> <<>>,
      telemetry_endpoints |-> None, protocol_id |-> None, properties |-> None,
      extensions |-> Bag("NoExtension", None) ]

(***************************************************************************)
(* Spec: the factories, the framework's closure invocations, try_get.      *)
(***************************************************************************)
Running == ~panic.some

Call(fn, id) == [fn |-> fn, id |-> id]

\* What a factory call leaves alone: it reads no blob and runs no closure.
FactoryFrame == UNCHANGED <<WASM_BINARY, telemetry_env, genesis, nruns, panic, got, args, de>>

\* A factory that builds the genesis record before it returns.
get_chain_spec_eager(id) ==
    /\ Running
    /\ Len(specs) < MaxSpecs
    /\ nruns' = nruns + 1
    /\ LET r == CallClosure(Closure("get_chain_spec", id))
       IN  IF r.tag = "Ok"
           THEN /\ specs' = Append(specs, [call |-> Call("get_chain_spec", id),
                                            ret |-> DevSpec(id)])
                /\ panic' = panic
           ELSE specs' = specs /\ panic' = Some(r.v)
    /\ UNCHANGED <<WASM_BINARY, telemetry_env, genesis, got, args, de>>

\* get_chain_spec (lines 66-100)
get_chain_spec(id) ==
    /\ Running
    /\ Len(specs) < MaxSpecs
    /\ specs' = Append(specs, [call |-> Call("get_chain_spec", id), ret |-> DevSpec(id)])
    /\ FactoryFrame

\* staging_test_net (lines 102-125)
staging_test_net(id) ==
    /\ Running
    /\ Len(specs) < MaxSpecs
    /\ specs' = Append(specs, [call |-> Call("staging_test_net", id), ret |-> StagingSpec(id)])
    /\ FactoryFrame

\* starks_pc1_testnet (lines 127-153)
starks_pc1_testnet(id) ==
    /\ Running
    /\ Len(specs) < MaxSpecs
    /\ specs' = Append(specs, [call |-> Call("starks_pc1_testnet", id), ret |-> Pc1Spec(id)])
    /\ FactoryFrame

\* The hosting framework invokes the closure registered in specs[i].
InvokeGenesis(i) ==
    /\ Running
    /\ Len(genesis) < MaxCalls
    /\ nruns' = nruns + 1
    /\ LET r == CallClosure(specs[i].ret.genesis)
       IN  IF r.tag = "Ok"
           THEN genesis' = Append(genesis, [spec |-> i, out |-> r.v]) /\ panic' = panic
           ELSE genesis' = genesis /\ panic' = Some(r.v)
    /\ UNCHANGED <<WASM_BINARY, telemetry_env, specs, got, args, de>>

\* A caller hands a specification, of this module or not, to try_get.
TryGet(cs) ==
    /\ Running
    /\ got' = Some([arg |-> cs, ret |-> try_get(cs)])
    /\ UNCHANGED <<WASM_BINARY, telemetry_env, specs, genesis, nruns, panic, args, de>>

WasmBlobs == {None, Some(<<>>), Some(<<0, 97, 115, 109>>)}

DeIdle == [input |-> <<>>, pos |-> 0, relay_chain |-> None, para_id |-> None,
           result |-> None]

Init ==
    /\ WASM_BINARY \in WasmBlobs
    /\ telemetry_env \in BOOLEAN
    /\ specs = <<>>
    /\ genesis = <<>>
    /\ nruns = 0
    /\ panic = None
    /\ got = None
    /\ args = None
    /\ de = DeIdle

Next ==
    \/ \E id \in ParaIds : get_chain_spec(id)
    \/ \E id \in ParaIds : staging_test_net(id)
    \/ \E id \in ParaIds : starks_pc1_testnet(id)
    \/ \E i \in 1..Len(specs) : InvokeGenesis(i)
    \/ \E cs \in {specs[i].ret : i \in 1..Len(specs)} \cup {ForeignSpec("Westend")} : TryGet(cs)

Spec == Init /\ [][Next]_vars

(***************************************************************************)
(* SpecGenesis: testnet_genesis on arbitrary arguments.                    *)
(***************************************************************************)
Accounts == {DevRoot, get_account_id_from_seed(<<"Bob">>), StagingRoot}

SeqsUpTo(S, n) == UNION {[1..k -> S] : k \in 0..n}

InitGenesis ==
    /\ WASM_BINARY \in WasmBlobs
    /\ telemetry_env = TRUE
    /\ specs = <<>>
    /\ genesis = <<>>
    /\ nruns = 0
    /\ panic = None
    /\ got = None
    /\ \E r \in Accounts, e \in SeqsUpTo(Accounts, MaxEndowed), id \in ParaIds :
          args = Some([root_key |-> r, endowed_accounts |-> e, id |-> id])
    /\ de = DeIdle

CallTestnetGenesis ==
    /\ Running
    /\ args.some
    /\ nruns = 0
    /\ nruns' = 1
    /\ LET r == testnet_genesis(args.v.root_key, args.v.endowed_accounts, args.v.id)
       IN  IF r.tag = "Ok"
           THEN genesis' = <<[spec |-> 0, out |-> r.v]>> /\ panic' = panic
           ELSE genesis' = genesis /\ panic' = Some(r.v)
    /\ UNCHANGED <<WASM_BINARY, telemetry_env, specs, got, args, de>>

NextGenesis == CallTestnetGenesis

SpecGenesis == InitGenesis /\ [][NextGenesis]_vars

(***************************************************************************)
(* SpecSerde: #[derive(Deserialize)] #[serde(deny_unknown_fields)] on      *)
(* Extensions, reading a JSON object one entry at a time.                  *)
(***************************************************************************)
\* A JSON string, and a JSON integer of magnitude hi * 2^16 + lo.
JStr(s) == [t |-> "string", s |-> s, neg |-> FALSE, hi |-> 0, lo |-> 0]
JNum(neg, hi, lo) == [t |-> "number", s |-> "", neg |-> neg, hi |-> hi, lo |-> lo]

JsonKeys == {"relay_chain", "para_id", "extra"}
JsonValues == {JStr("x"), JStr("y"), JNum(FALSE, 0, 1), JNum(TRUE, 0, 1),
               JNum(FALSE, 2^16, 0)}
JsonEntries == [k : JsonKeys, v : JsonValues]

\* The attribute removed: an unknown key is skipped with its value.
AllowUnknownFields == FALSE

\* #[serde(deny_unknown_fields)] (line 30)
DenyUnknownFields == TRUE

\* String::deserialize (relay_chain, line 33)
DeString(v) == IF v.t = "string" THEN Ok(v.s) ELSE Err("invalid type")

\* u32::deserialize (para_id, line 35): a non-negative integer below 2^32.
DeU32(v) ==
    IF v.t # "number" THEN Err("invalid type")
    ELSE IF v.neg \/ v.hi >= 2^16 THEN Err("invalid value")
    ELSE Ok(v.hi * 2^16 + v.lo)

\* One turn of the generated visit_map loop on the entry e.
VisitEntry(st, e) ==
    LET next == [st EXCEPT !.pos = st.pos + 1]
        fail(m) == [next EXCEPT !.result = Some(Err(m))]
    IN  CASE e.k = "relay_chain" ->
               IF st.relay_chain.some THEN fail("duplicate field")
               ELSE LET r == DeString(e.v)
                    IN  IF r.tag = "Ok" THEN [next EXCEPT !.relay_chain = Some(r.v)]
                        ELSE fail(r.v)
          [] e.k = "para_id" ->
               IF st.para_id.some THEN fail("duplicate field")
               ELSE LET r == DeU32(e.v)
                    IN  IF r.tag = "Ok" THEN [next EXCEPT !.para_id = Some(r.v)]
                        ELSE fail(r.v)
          [] OTHER ->
               IF DenyUnknownFields THEN fail("unknown field") ELSE next

\* The end of the map: a field never seen is missing.
EndOfMap(st) ==
    IF ~st.relay_chain.some THEN [st EXCEPT !.result = Some(Err("missing field"))]
    ELSE IF ~st.para_id.some THEN [st EXCEPT !.result = Some(Err("missing field"))]
    ELSE [st EXCEPT !.result = Some(Ok(Extensions(st.relay_chain.v, st.para_id.v)))]

InitSerde ==
    /\ WASM_BINARY = None
    /\ telemetry_env = TRUE
    /\ specs = <<>>
    /\ genesis = <<>>
    /\ nruns = 0
    /\ panic = None
    /\ got = None
    /\ args = None
    /\ \E input \in SeqsUpTo(JsonEntries, MaxFields) : de = [DeIdle EXCEPT !.input = input]

DeserializeEntry ==
    /\ ~de.result.some
    /\ de.pos < Len(de.input)
    /\ de' = VisitEntry(de, de.input[de.pos + 1])
    /\ UNCHANGED <<WASM_BINARY, telemetry_env, specs, genesis, nruns, panic, got, args>>

DeserializeEnd ==
    /\ ~de.result.some
    /\ de.pos = Len(de.input)
    /\ de' = EndOfMap(de)
    /\ UNCHANGED <<WASM_BINARY, telemetry_env, specs, genesis, nruns, panic, got, args>>

NextSerde == DeserializeEntry \/ DeserializeEnd

SpecSerde == InitSerde /\ [][NextSerde]_vars

(***************************************************************************)
(* Properties.                                                             *)
(***************************************************************************)
\* 10_000_000_000_000_000_000_000_000_000 in decimal digits.
TenPow28Digits == [i \in 1..29 |-> IF i = 1 THEN 1 ELSE 0]

IsTenPow28(b) == Len(b) = U128Limbs /\ Decimal(b) = TenPow28Digits

Derived(path) == [kind |-> "derived", key |-> path]
Raw(h) == [kind |-> "raw", key |-> <<h>>]

FnOf(k) == specs[genesis[k].spec].call.fn
IdOf(k) == specs[genesis[k].spec].call.id

\* C1: the record testnet_genesis builds credits every account of the endowed
\* list with exactly 10^28, a value computed in 128 bits without wrap-around,
\* and credits no account outside the list.
C1_EndowedGetTenPow28 ==
    \A k \in 1..Len(genesis) :
        LET b == genesis[k].out.balances
            e == args.v.endowed_accounts
        IN  /\ ~Endowment.overflow
            /\ \A i \in 1..Len(e) : \E j \in 1..Len(b) : b[j][1] = e[i]
            /\ \A j \in 1..Len(b) :
                  /\ IsTenPow28(b[j][2])
                  /\ \E i \in 1..Len(e) : e[i] = b[j][1]

C1_Witness ==
    /\ Len(genesis) = 1
    /\ Len(args.v.endowed_accounts) = 3
    /\ Cardinality({args.v.endowed_accounts[i] : i \in 1..3}) = 3
    /\ Len(genesis[1].out.balances) = 3
    /\ args.v.id = ParaId(2000)

\* C2: for every factory and every id, the para_id of the Extensions record of
\* the returned specification, the parachain_id of the genesis record its
\* closure produces, and the id the caller passed are the same.
C2_ParaIdPassedThrough ==
    /\ \A i \in 1..Len(specs) :
          specs[i].ret.extensions.value.para_id = specs[i].call.id.para
    /\ \A k \in 1..Len(genesis) :
          /\ genesis[k].out.parachain_id = IdOf(k)
          /\ genesis[k].out.parachain_id.para
                = specs[genesis[k].spec].ret.extensions.value.para_id

C2_Witness ==
    \E k \in 1..Len(genesis) :
        /\ IdOf(k) = ParaId(0)
        /\ genesis[k].out.parachain_id = ParaId(0)
        /\ FnOf(k) = "starks_pc1_testnet"

\* C3: genesis construction is deferred: testnet_genesis has run exactly as
\* often as the framework has invoked a closure, so a factory call never runs
\* it, and the missing-blob panic arises only in an invoked closure.
C3_GenesisDeferred ==
    /\ nruns = Len(genesis) + (IF panic.some THEN 1 ELSE 0)
    /\ (nruns = 0 => ~panic.some)

C3_Witness ==
    /\ ~WASM_BINARY.some
    /\ Len(specs) = 2
    /\ specs[1].call.fn = "get_chain_spec"
    /\ nruns = 0
    /\ ~panic.some

C5_TelemetryDegrades ==
    /\ \A i \in 1..Len(specs) :
          specs[i].call.fn = "starks_pc1_testnet" =>
             specs[i].ret =
                [ name |-> "zCloak Network PC1",
                  id |-> "zcloak_network",
                  chain_type |-> "Live",
                  genesis |-> [fn |-> "starks_pc1_testnet", id |-> specs[i].call.id],
                  boot_nodes |-> <<>>,
                  telemetry_endpoints |->
                      IF telemetry_env
                      THEN Some(<< <<"wss://telemetry.polkadot.io/submit/", 0>> >>)
                      ELSE None,
                  protocol_id |-> Some("zcloak-pc1"),
                  properties |-> Some([tokenSymbol |-> "STN", tokenDecimals |-> 18]),
                  extensions |->
                      [ type |-> "Extensions",
                        value |-> [relay_chain |-> "rococo",
                                   para_id |-> specs[i].call.id.para] ] ]
    /\ panic.some => nruns > 0

C5_Witness ==
    /\ ~telemetry_env
    /\ ~panic.some
    /\ \E i \in 1..Len(specs) :
          /\ specs[i].call.fn = "starks_pc1_testnet"
          /\ specs[i].ret.telemetry_endpoints = None
          /\ specs[i].ret.protocol_id = Some("zcloak-pc1")

\* C6: try_get on a specification a factory built returns Some record with the
\* factory's relay chain and the caller's id; on a specification whose bag
\* holds no Extensions record it returns None; and a try_get call changes no
\* specification.
C6_GotRight ==
    got.some =>
        LET cs == got.v.arg
            r == got.v.ret
        IN  /\ \A i \in 1..Len(specs) :
                  specs[i].ret = cs =>
                     r = Some([ relay_chain |->
                                    IF specs[i].call.fn = "starks_pc1_testnet"
                                    THEN "rococo" ELSE "westend-dev",
                                para_id |-> specs[i].call.id.para ])
            /\ cs.extensions.type # "Extensions" => r = None
            /\ (cs.extensions.type = "Extensions") =>
                  \E i \in 1..Len(specs) : specs[i].ret = cs

\* C6: the result of every try_get call is as C6_GotRight states, and the step
\* that makes the call leaves every specification as it was.
C6_TryGet ==
    /\ []C6_GotRight
    /\ [][got' # got => (specs' = specs /\ panic' = panic)]_vars

C6_Witness ==
    /\ got.some
    /\ got.v.ret = Some([relay_chain |-> "westend-dev", para_id |-> 2000])
    /\ \E i \in 1..Len(specs) : specs[i].ret.extensions.type = "Extensions"

\* C7: deserializing an Extensions record succeeds exactly when the input
\* object holds the two fields relay_chain (a string) and para_id (an unsigned
\* 32-bit integer) and nothing else; an additional or a missing field is an
\* error, and the record returned holds the input's two values.
WellFormed(input) ==
    /\ Len(input) = 2
    /\ \E i, j \in 1..2 :
          /\ input[i].k = "relay_chain" /\ input[i].v.t = "string"
          /\ input[j].k = "para_id" /\ input[j].v.t = "number"
          /\ ~input[j].v.neg /\ input[j].v.hi < 2^16

C7_StrictFields ==
    de.result.some =>
        /\ de.result.v.tag = "Ok" <=> WellFormed(de.input)
        /\ de.result.v.tag = "Ok" =>
              \E i, j \in 1..2 :
                  /\ de.input[i].k = "relay_chain"
                  /\ de.input[j].k = "para_id"
                  /\ de.result.v.v = [relay_chain |-> de.input[i].v.s,
                                      para_id |-> de.input[j].v.hi * 2^16
                                                    + de.input[j].v.lo]

C7_Witness ==
    /\ de.input = << [k |-> "relay_chain", v |-> JStr("x")],
                     [k |-> "para_id", v |-> JNum(FALSE, 0, 1)],
                     [k |-> "extra", v |-> JStr("y")] >>
    /\ de.result = Some(Err("unknown field"))

RootOfProfile(fn) ==
    CASE fn = "get_chain_spec" -> Derived(<<"Alice">>)
      [] fn = "staging_test_net" ->
            Raw("9ed7705e3c7da027ba0583a22a3212042f7e715d3c168ba14f1424e2bc111d00")
      [] fn = "starks_pc1_testnet" ->
            Raw("5ae0bef89390c69ddceef596adb034b6b0546f5a0f9d8cb042e9288bd9e45e54")

Credited(g, a) == \E j \in 1..Len(g.balances) : g.balances[j][1] = a

C9_RootVerbatim ==
    \A k \in 1..Len(genesis) :
        /\ genesis[k].out.key = RootOfProfile(FnOf(k))
        /\ FnOf(k) = "starks_pc1_testnet" => ~Credited(genesis[k].out, genesis[k].out.key)
        /\ FnOf(k) \in {"get_chain_spec", "staging_test_net"} =>
              Credited(genesis[k].out, genesis[k].out.key)

C9_Witness ==
    \E k1, k2 \in 1..Len(genesis) :
        /\ FnOf(k1) = "starks_pc1_testnet"
        /\ ~Credited(genesis[k1].out, genesis[k1].out.key)
        /\ FnOf(k2) = "staging_test_net"
        /\ Credited(genesis[k2].out, genesis[k2].out.key)

\* C10: the balances testnet_genesis emits have the length and the account
\* order of the endowed list, each entry crediting 10^28: an account listed k
\* times gets k separate entries.
C10_OrderAndDuplicatesKept ==
    \A k \in 1..Len(genesis) :
        LET b == genesis[k].out.balances
            e == args.v.endowed_accounts
        IN  /\ Len(b) = Len(e)
            /\ \A i \in 1..Len(b) : b[i][1] = e[i] /\ IsTenPow28(b[i][2])

C10_Witness ==
    /\ Len(genesis) = 1
    /\ Len(args.v.endowed_accounts) = 3
    /\ args.v.endowed_accounts[1] = args.v.endowed_accounts[3]
    /\ args.v.endowed_accounts[1] # args.v.endowed_accounts[2]
    /\ Len(genesis[1].out.balances) = 3
    /\ genesis[1].out.balances[1] = genesis[1].out.balances[3]

=============================================================================
